---------------------------- MODULE Spec2Model ----------------------------
(***************************************************************************)
(* Model of backend/main.py: the sitemap-to-report analysis pipeline.      *)
(*                                                                         *)
(* Text is a sequence of code points (naturals), so that clean_url,        *)
(* the '/post/' filter and the whitespace split are computed the way the   *)
(* Python code computes them.                                              *)
(*                                                                         *)
(* Three specifications share the variables:                               *)
(*   Spec         one run of analyze_sitemap (the endpoint)                *)
(*   SpecFetch    one call of fetch_url_with_retry with any max_retries    *)
(*   SpecResolve  one call of parse_sitemap_content on any bounded body    *)
(***************************************************************************)
EXTENDS Naturals, Integers, Sequences, FiniteSets, TLC

VARIABLES
    url,              \* sitemap.url, the input of analyze_sitemap
    sitemap_content,  \* the body of the sitemap response
    blog_urls,        \* the list parse_sitemap_content returned
    idx,              \* position of the for loop in blog_urls (0: not started)
    cur,              \* title and word count of the page being analyzed
    analyzed_blogs,   \* the accumulated records
    error_count,      \* the consecutive-error counter
    pc,               \* where the run is suspended
    result,           \* what the endpoint returned or raised
    excel_file,       \* the rows held by the file blog_analysis.xlsx
    f_ret,            \* the call site of the fetch in progress
    cleaned_url,      \* fetch_url_with_retry: the URL given to the client
    max_retries,      \* fetch_url_with_retry: its parameter
    attempt,          \* fetch_url_with_retry: the loop variable
    f_pc,             \* fetch_url_with_retry: where the call is suspended
    f_result,         \* fetch_url_with_retry: what it returned or raised
    fetch_log,        \* history: the gets and sleeps of the current call
    events,           \* history: fetch starts, outcomes and pauses of the run
    outcomes,         \* history: the outcome of each processed candidate
    other,            \* the local state of a second run that is suspended
    soup,             \* extract_content_from_html: the parsed page
    content,          \* the text a function works on (extracted or answered)
    analysis          \* analyze_content_with_deepseek: what it returned

vars == <<url, sitemap_content, blog_urls, idx, cur, analyzed_blogs,
          error_count, pc, result, excel_file, f_ret, cleaned_url,
          max_retries, attempt, f_pc, f_result, fetch_log, events, outcomes,
          other, soup, content, analysis>>

runVars == <<url, idx, cur, analyzed_blogs, error_count, result, excel_file,
             events, outcomes, other, soup, content, analysis>>

\* what a step of a run leaves alone: the suspended run and the functions
\* exercised on their own
otherVars == <<other, soup, content, analysis>>

fetchVars == <<f_ret, cleaned_url, max_retries, attempt, f_pc, f_result,
               fetch_log>>

-----------------------------------------------------------------------------
(* Bounds of the model *)

\* longest sitemap document of a pipeline run (number of loc elements)
MaxLocs == 7
\* longest sitemap body handed to parse_sitemap_content on its own
MaxDocLen == 3
\* largest max_retries a direct call of fetch_url_with_retry is given
MaxRetriesBound == 4
\* longest sitemap document when two runs are interleaved
MaxLocsTwoRuns == 1
\* largest number of elements of a page handed to extract_content_from_html
MaxElements == 3

(* Program constants *)

\* max_errors = 3
max_errors == 3
\* max_retries: int = 3
default_max_retries == 3

-----------------------------------------------------------------------------
(* Text helpers: str.split, ' '.join, substring test, str.startswith *)

\* the characters str.split() treats as whitespace (ASCII range)
IsSpace(c) == c \in {9, 10, 11, 12, 13, 28, 29, 30, 31, 32}

RECURSIVE SplitFrom(_, _, _, _)
SplitFrom(s, i, word, acc) ==
    IF i > Len(s)
    THEN IF word = <<>> THEN acc ELSE Append(acc, word)
    ELSE IF IsSpace(s[i])
         THEN SplitFrom(s, i + 1, <<>>,
                        IF word = <<>> THEN acc ELSE Append(acc, word))
         ELSE SplitFrom(s, i + 1, Append(word, s[i]), acc)

\* s.split(): the maximal runs of non-whitespace characters
Split(s) == SplitFrom(s, 1, <<>>, <<>>)

RECURSIVE Join(_, _)
\* sep.join(words)
Join(sep, words) ==
    IF words = <<>> THEN <<>>
    ELSE IF Len(words) = 1 THEN words[1]
    ELSE words[1] \o sep \o Join(sep, Tail(words))

\* sub stands in s at position i
MatchAt(s, sub, i) == \A j \in 1..Len(sub) : s[i + j - 1] = sub[j]

\* sub in s
Contains(s, sub) == \E i \in 1..(Len(s) - Len(sub) + 1) : MatchAt(s, sub, i)

\* s.startswith(prefix)
StartsWith(s, prefix) ==
    Len(s) >= Len(prefix) /\ SubSeq(s, 1, Len(prefix)) = prefix

\* index of the first occurrence of sub in s, 0 when there is none
Find(s, sub) ==
    IF Contains(s, sub)
    THEN CHOOSE i \in 1..(Len(s) - Len(sub) + 1) :
            /\ MatchAt(s, sub, i)
            /\ \A j \in 1..(i - 1) : ~MatchAt(s, sub, j)
    ELSE 0

\* "/post/"
PostMarker == <<47, 112, 111, 115, 116, 47>>
\* "://"
SchemeSep == <<58, 47, 47>>

-----------------------------------------------------------------------------
(* urllib.parse.quote(path, safe=':/?=&') and clean_url *)

\* letters, digits and "_.-~" are never quoted
AlwaysSafe(c) ==
    c \in (48..57) \cup (65..90) \cup (97..122) \cup {45, 46, 95, 126}

\* safe=':/?=&'
SafeChars == {58, 47, 63, 61, 38}

\* an upper-case hexadecimal digit
Hex(d) == IF d < 10 THEN 48 + d ELSE 55 + d

\* one character (below 128) as quote() writes it
QuoteChar(c) ==
    IF AlwaysSafe(c) \/ c \in SafeChars
    THEN <<c>>
    ELSE <<37, Hex(c \div 16), Hex(c % 16)>>

RECURSIVE Quote(_)
Quote(s) == IF s = <<>> THEN <<>> ELSE QuoteChar(Head(s)) \o Quote(Tail(s))

IsPrintable(c) == c >= 32

\* parts = url.split('://', 1): with two parts the path is quoted
QuotePath(shown) ==
    LET k == Find(shown, SchemeSep)
    IN  IF k > 0
        THEN SubSeq(shown, 1, k - 1) \o SchemeSep
                \o Quote(SubSeq(shown, k + 3, Len(shown)))
        ELSE shown

\* (the text without white space and control characters is bound to its
\* value once, whatever the mode of evaluation)
clean_url(raw) ==
    CHOOSE cleaned \in
        { QuotePath(shown) :
            shown \in { SelectSeq(Join(<<32>>, Split(raw)), IsPrintable) } } :
        TRUE

-----------------------------------------------------------------------------
(* parse_sitemap_content                                                   *)
(*                                                                         *)
(* A body that parses as XML is the sequence of its loc elements in        *)
(* document order, each with its namespace ("ns": the sitemap namespace,   *)
(* "none": no namespace) and its text.  A body that does not parse is its  *)
(* text.                                                                   *)

XmlBody(locs) == [kind |-> "xml", locs |-> locs, text |-> <<>>]
TextBody(text) == [kind |-> "text", locs |-> <<>>, text |-> text]
NoBody == [kind |-> "none", locs |-> <<>>, text |-> <<>>]

IsNs(loc) == loc.ns = "ns"
IsPlain(loc) == loc.ns = "none"

\* root.findall(".//ns:loc", namespaces), else root.findall(".//loc")
FindLocs(locs) ==
    LET namespaced == SelectSeq(locs, IsNs)
    IN  IF namespaced # <<>> THEN namespaced ELSE SelectSeq(locs, IsPlain)

\* faulty variant: the post marker is not looked for
Accept_AnyText(text) == text # <<>>

\* url.text and "/post/" in url.text
Accept(text) == text # <<>> /\ Contains(text, PostMarker)

RECURSIVE CleanAccepted(_)
\* the loop body: filter, clean_url, append when the result is not empty
CleanAccepted(texts) ==
    IF texts = <<>> THEN <<>>
    ELSE LET cleaned == clean_url(Head(texts))
         IN  (IF Accept(Head(texts)) /\ cleaned # <<>>
              THEN <<cleaned>> ELSE <<>>)
             \o CleanAccepted(Tail(texts))

RECURSIVE Dedup(_, _)
Dedup(s, seen) ==
    IF s = <<>> THEN <<>>
    ELSE IF Head(s) \in seen
         THEN Dedup(Tail(s), seen)
         ELSE <<Head(s)>> \o Dedup(Tail(s), seen \cup {Head(s)})

\* faulty variant: duplicates are kept
DictFromKeys_KeepAll(s) == s

\* list(dict.fromkeys(blog_urls))
DictFromKeys(s) == Dedup(s, {})

LocTexts(locs) == [i \in 1..Len(locs) |-> locs[i].text]

parse_sitemap_content(body) ==
    IF body.kind = "xml"
    THEN DictFromKeys(CleanAccepted(LocTexts(FindLocs(body.locs))))
    ELSE DictFromKeys(CleanAccepted(Split(body.text)))


-----------------------------------------------------------------------------
(* fetch_url_with_retry                                                    *)

NoResult == [kind |-> "none", status_code |-> 0, detail |-> ""]
\* return response (a 2xx response: raise_for_status passed)
Response == [kind |-> "response", status_code |-> 200, detail |-> ""]
\* the function ends without a return statement
ReturnsNone == [kind |-> "None", status_code |-> 0, detail |-> ""]
\* raise HTTPException(status_code=.., detail=..)
Raised(code, detail) ==
    [kind |-> "HTTPException", status_code |-> code, detail |-> detail]

\* the non-2xx statuses the server answers with
ErrorStatuses == {404, 503}

\* faulty variant: the last attempt is looked for one iteration too late
IsLastAttempt_OffByOne(a, n) == a = n

\* faulty variant: the loop variable does not advance
NextAttempt_Same(a) == a

\* for attempt in range(max_retries): the next value
NextAttempt(a) == a + 1

\* if attempt == max_retries - 1
IsLastAttempt(a, n) == a = n - 1

\* the call: cleaned_url = clean_url(url), then the for loop starts
CallFetch(site, raw, n) ==
    /\ f_ret' = site
    /\ cleaned_url' = clean_url(raw)
    /\ max_retries' = n
    /\ attempt' = 0
    /\ f_pc' = "head"
    /\ f_result' = NoResult
    /\ fetch_log' = <<>>

\* the caller has the result: the locals of the call are gone
FetchDone ==
    /\ f_ret' = "none"
    /\ cleaned_url' = <<>>
    /\ max_retries' = 0
    /\ attempt' = 0
    /\ f_pc' = "idle"
    /\ f_result' = NoResult
    /\ fetch_log' = <<>>

\* for attempt in range(max_retries): the next iteration, or the end of the
\* loop and of the function
FetchLoop ==
    /\ f_pc = "head"
    /\ IF attempt < max_retries
       THEN /\ f_pc' = "get"
            /\ f_result' = f_result
       ELSE /\ f_pc' = "returned"
            /\ f_result' = ReturnsNone
    /\ UNCHANGED <<f_ret, cleaned_url, max_retries, attempt, fetch_log>>
    /\ UNCHANGED <<sitemap_content, blog_urls, pc>>
    /\ UNCHANGED runVars

\* await client.get(cleaned_url) answers 2xx: return response
FetchOk ==
    /\ f_pc = "get"
    /\ fetch_log' = Append(fetch_log, "get")
    /\ f_pc' = "returned"
    /\ f_result' = Response
    /\ UNCHANGED <<f_ret, cleaned_url, max_retries, attempt>>
    /\ UNCHANGED <<sitemap_content, blog_urls, pc>>
    /\ UNCHANGED runVars

\* one of the three except clauses: raise on the last attempt, else go on
\* to the sleep
FailedAttempt(code, detail) ==
    /\ f_pc = "get"
    /\ fetch_log' = Append(fetch_log, "get")
    /\ IF IsLastAttempt(attempt, max_retries)
       THEN /\ f_pc' = "raised"
            /\ f_result' = Raised(code, detail)
       ELSE /\ f_pc' = "sleep"
            /\ f_result' = f_result
    /\ UNCHANGED <<f_ret, cleaned_url, max_retries, attempt>>
    /\ UNCHANGED <<sitemap_content, blog_urls, pc>>
    /\ UNCHANGED runVars

\* except httpx.HTTPStatusError: the HTTPException carries the status
FetchStatusError ==
    \E code \in ErrorStatuses : FailedAttempt(code, "HTTP error")

\* except httpx.TimeoutException: 504
FetchTimeout == FailedAttempt(504, "Request timed out")

\* except Exception: 500
FetchOtherError == FailedAttempt(500, "Error fetching URL")

\* await asyncio.sleep(1), then the next iteration
FetchSleep ==
    /\ f_pc = "sleep"
    /\ fetch_log' = Append(fetch_log, "sleep")
    /\ attempt' = NextAttempt(attempt)
    /\ f_pc' = "head"
    /\ UNCHANGED <<f_ret, cleaned_url, max_retries, f_result>>
    /\ UNCHANGED <<sitemap_content, blog_urls, pc>>
    /\ UNCHANGED runVars

FetchStep ==
    \/ FetchLoop
    \/ FetchOk
    \/ FetchStatusError
    \/ FetchTimeout
    \/ FetchOtherError
    \/ FetchSleep

-----------------------------------------------------------------------------
(* Initial values shared by the specifications *)

Pending == [kind |-> "pending", status_code |-> 0, detail |-> "",
            analyzed_count |-> 0]
NoPage == [title |-> "", word_count |-> 0]
\* no second run is in progress
NoRun == [pc |-> "none"]
\* no page and no answer is being worked on
NoSoup == [body |-> FALSE, nodes |-> <<>>]
NoAnalysis == [kind |-> "none"]
FunctionsIdle ==
    /\ soup = NoSoup
    /\ content = <<>>
    /\ analysis = NoAnalysis

RunIdle ==
    /\ idx = 0
    /\ cur = NoPage
    /\ analyzed_blogs = <<>>
    /\ error_count = 0
    /\ result = Pending
    /\ excel_file = <<>>
    /\ events = <<>>
    /\ outcomes = <<>>

FetchIdle ==
    /\ f_ret = "none"
    /\ cleaned_url = <<>>
    /\ max_retries = 0
    /\ attempt = 0
    /\ f_pc = "idle"
    /\ f_result = NoResult
    /\ fetch_log = <<>>

-----------------------------------------------------------------------------
(* SpecFetch: one direct call fetch_url_with_retry(url, n) *)

\* "http://a/post/x", "http://a/post/y z", " http://a/about\n"
FetchUrls ==
    { <<104, 116, 116, 112, 58, 47, 47, 97, 47, 112, 111, 115, 116, 47, 120>>,
      <<104, 116, 116, 112, 58, 47, 47, 97, 47, 112, 111, 115, 116, 47, 121,
        32, 122>>,
      <<32, 104, 116, 116, 112, 58, 47, 47, 97, 47, 97, 98, 111, 117, 116,
        10>> }

InitFetch ==
    /\ url \in FetchUrls
    /\ other = NoRun
    /\ FunctionsIdle
    /\ sitemap_content = NoBody
    /\ blog_urls = <<>>
    /\ pc = "direct"
    /\ RunIdle
    /\ f_ret = "direct"
    /\ cleaned_url = clean_url(url)
    /\ max_retries \in 0..MaxRetriesBound
    /\ attempt = 0
    /\ f_pc = "head"
    /\ f_result = NoResult
    /\ fetch_log = <<>>

NextFetch == FetchStep

SpecFetch == InitFetch /\ [][NextFetch]_vars


-----------------------------------------------------------------------------
(* analyze_sitemap: results, exceptions and history records *)

\* an exception raised inside the endpoint
Exc(code, detail) == [status_code |-> code, detail |-> detail]

\* except Exception as e: raise HTTPException(500, "Error processing
\* sitemap: ..") around the fetch, the loop and the report
InnerExcept(e) == Exc(500, e.detail)

\* except Exception as e: raise HTTPException(500, str(e)) around the
\* whole endpoint
OuterExcept(e) == Exc(500, e.detail)

\* the HTTPException that leaves the endpoint
Failure(e) == [kind |-> "HTTPException", status_code |-> e.status_code,
               detail |-> e.detail, analyzed_count |-> 0]

\* return {"status": "success", "analyzed_count": .., "excel_path": ..}
Success(n) == [kind |-> "success", status_code |-> 200,
               detail |-> "blog_analysis.xlsx", analyzed_count |-> n]

FetchEvent(i, u) == [type |-> "fetch", i |-> i, url |-> u, outcome |-> ""]
EndEvent(i, o) == [type |-> "end", i |-> i, url |-> <<>>, outcome |-> o]
PauseEvent(i) == [type |-> "pause", i |-> i, url |-> <<>>, outcome |-> ""]
\* analyze_content_with_deepseek is called for candidate i
AnalyzeEvent(i) == [type |-> "analyze", i |-> i, url |-> <<>>, outcome |-> ""]

Outcome(kind, stage) == [kind |-> kind, stage |-> stage]

\* "http://", "https://"
HttpPrefix == <<104, 116, 116, 112, 58, 47, 47>>
HttpsPrefix == <<104, 116, 116, 112, 115, 58, 47, 47>>

\* sitemap.url.startswith(('http://', 'https://'))
ValidSitemapUrl(u) == StartsWith(u, HttpPrefix) \/ StartsWith(u, HttpsPrefix)

\* faulty variant: an empty page is not counted as an error
OnSkipped_NotCounted(n) == n

\* error_count += 1 in the else branch (no content)
OnSkipped(n) == n + 1

\* error_count += 1 in the except clause
OnFailed(n) == n + 1

\* error_count = 0  # Reset error count on success
OnRecorded(n) == 0

\* faulty variant: the record is put in front of the list
AppendRecord_InFront(list, r) == <<r>> \o list

\* analyzed_blogs.append({...})
AppendRecord(list, r) == Append(list, r)

\* faulty variant: the count of all candidates is returned
AnalyzedCount_AllCandidates(list) == Len(blog_urls)

\* len(analyzed_blogs) in the returned object
AnalyzedCount(list) == Len(list)

\* the fetched pages: the title element is absent, holds one string, or is
\* present without a single string (soup.title.string is None); the
\* extracted content has no word or some
Pages == [title : {"absent", "text", "no_string"}, word_count : {0, 5}]

\* faulty variant: the analysis is called whatever was extracted
HasContent_Always(page) == TRUE

\* if content:
HasContent(page) == page.word_count > 0

\* soup.title.string if soup.title else "No title"
TitleOf(page) == IF page.title = "absent" THEN "No title" ELSE "Post title"

-----------------------------------------------------------------------------
(* analyze_sitemap: the steps between two suspension points *)

\* the validation of sitemap.url, then the call of the sitemap fetch
Start ==
    /\ pc = "start"
    /\ IF ValidSitemapUrl(url)
       THEN /\ pc' = "sitemap"
            /\ events' = Append(events, FetchEvent(0, url))
            /\ CallFetch("sitemap", url, default_max_retries)
            /\ result' = result
       ELSE /\ pc' = "done"
            /\ result' = Failure(OuterExcept(Exc(400, "invalid sitemap url")))
            /\ events' = events
            /\ UNCHANGED fetchVars
    /\ UNCHANGED otherVars
    /\ UNCHANGED <<url, sitemap_content, blog_urls, idx, cur, analyzed_blogs,
                   error_count, excel_file, outcomes>>

\* the sitemap fetch raised: both except clauses wrap the HTTPException
SitemapFetchFailed ==
    /\ pc = "sitemap"
    /\ f_pc = "raised"
    /\ pc' = "done"
    /\ result' = Failure(OuterExcept(InnerExcept(
                    Exc(f_result.status_code, f_result.detail))))
    /\ FetchDone
    /\ UNCHANGED otherVars
    /\ UNCHANGED <<url, sitemap_content, blog_urls, idx, cur, analyzed_blogs,
                   error_count, excel_file, events, outcomes>>


\* "http://a/post/" followed by the digit j
PostUrl(j) ==
    <<104, 116, 116, 112, 58, 47, 47, 97, 47, 112, 111, 115, 116, 47, 48 + j>>
\* "http://a/about"
AboutUrl == <<104, 116, 116, 112, 58, 47, 47, 97, 47, 97, 98, 111, 117, 116>>
\* "/post/r"
RelativePost == <<47, 112, 111, 115, 116, 47, 114>>

\* the k-th loc element of the sitemap documents of a run: posts, with a page
\* that is no post in second place and the first post again, wrapped in
\* white space, in fourth place
MasterLoc(k) ==
    IF k = 2 THEN [ns |-> "ns", text |-> AboutUrl]
    ELSE IF k = 4 THEN [ns |-> "ns", text |-> <<10, 32>> \o PostUrl(1) \o <<10>>]
    ELSE [ns |-> "ns",
          text |-> PostUrl(k - (IF k > 2 THEN 1 ELSE 0) - (IF k > 4 THEN 1 ELSE 0))]

\* "http://a/post/y z": a post whose path holds a space
SpacedPost ==
    <<104, 116, 116, 112, 58, 47, 47, 97, 47, 112, 111, 115, 116, 47,
      121, 32, 122>>

\* the sitemap bodies the server answers with in a run: the XML documents
\* of at most MaxLocs loc elements, a document whose only loc is a post
\* with a space in its path, and a plain-text list; with two runs
\* interleaved, the XML documents of at most MaxLocsTwoRuns loc elements
PipelineBodies ==
    { XmlBody([k \in 1..n |-> MasterLoc(k)]) : n \in 0..MaxLocs }
    \cup { XmlBody(<<[ns |-> "ns", text |-> SpacedPost]>>) }
    \cup { TextBody(PostUrl(1) \o <<10>> \o AboutUrl \o <<10>> \o RelativePost) }

TwoRunsBodies ==
    { XmlBody([k \in 1..n |-> MasterLoc(k)]) : n \in 0..MaxLocsTwoRuns }

\* sitemap_content = response.text with
\* blog_urls = await parse_sitemap_content(sitemap_content), for every body
\* of a set
Parsed(bodies) ==
    { [sitemap_content |-> body, blog_urls |-> parse_sitemap_content(body)] :
        body \in bodies }

ParsedPipelineBodies == Parsed(PipelineBodies)
ParsedTwoRunsBodies == Parsed(TwoRunsBodies)

\* the sitemap fetch returned: response.text, parse_sitemap_content, the
\* check for an empty list, then the initialisation of the loop
SitemapFetched ==
    /\ pc = "sitemap"
    /\ f_pc = "returned"
    /\ f_result.kind = "response"
    /\ \E parsed \in (IF other = NoRun THEN ParsedPipelineBodies
                                         ELSE ParsedTwoRunsBodies) :
        /\ sitemap_content' = parsed.sitemap_content
        /\ blog_urls' = parsed.blog_urls
    /\ IF blog_urls' = <<>>
       THEN /\ pc' = "done"
            /\ result' = Failure(OuterExcept(InnerExcept(
                            Exc(404, "no blog posts found in sitemap"))))
       ELSE /\ pc' = "loop"
            /\ result' = result
    /\ analyzed_blogs' = <<>>
    /\ error_count' = 0
    /\ idx' = 0
    /\ FetchDone
    /\ UNCHANGED otherVars
    /\ UNCHANGED <<url, cur, excel_file, events, outcomes>>

\* for blog_url in blog_urls: the next candidate and the call of its fetch,
\* or the end of the loop
LoopNext ==
    /\ pc = "loop"
    /\ IF idx < Len(blog_urls)
       THEN /\ idx' = idx + 1
            /\ pc' = "blog"
            /\ events' = Append(events, FetchEvent(idx + 1, blog_urls[idx + 1]))
            /\ CallFetch("blog", blog_urls[idx + 1], default_max_retries)
       ELSE /\ pc' = "after_loop"
            /\ UNCHANGED <<idx, events>>
            /\ UNCHANGED fetchVars
    /\ UNCHANGED otherVars
    /\ UNCHANGED <<url, sitemap_content, blog_urls, cur, analyzed_blogs,
                   error_count, result, excel_file, outcomes>>

\* faulty variant: any exception leaves the loop
ExceptClause_Break(stage) ==
    /\ error_count' = OnFailed(error_count)
    /\ outcomes' = Append(outcomes, Outcome("Failed", stage))
    /\ events' = Append(events, EndEvent(idx, "Failed"))
    /\ pc' = "after_loop"

\* except Exception as e: count the error, break at max_errors, else
\* continue (no sleep on this path)
ExceptClause(stage) ==
    /\ error_count' = OnFailed(error_count)
    /\ outcomes' = Append(outcomes, Outcome("Failed", stage))
    /\ events' = Append(events, EndEvent(idx, "Failed"))
    /\ pc' = IF error_count' >= max_errors THEN "after_loop" ELSE "loop"

\* the candidate's fetch raised
BlogFetchFailed ==
    /\ pc = "blog"
    /\ f_pc = "raised"
    /\ ExceptClause("Fetching")
    /\ FetchDone
    /\ UNCHANGED otherVars
    /\ UNCHANGED <<url, sitemap_content, blog_urls, idx, cur, analyzed_blogs,
                   result, excel_file>>

\* the candidate's fetch returned: title, meta description and content are
\* extracted; with content the analysis is called, without it the error
\* counter is incremented and the sleep starts
BlogFetched ==
    /\ pc = "blog"
    /\ f_pc = "returned"
    /\ f_result.kind = "response"
    /\ \E page \in Pages :
        IF page.title = "no_string"
        THEN \* title.split() on None raises AttributeError
             /\ ExceptClause("Extracting")
             /\ cur' = cur
        ELSE IF HasContent(page)
        THEN /\ cur' = [title |-> TitleOf(page), word_count |-> page.word_count]
             /\ pc' = "analyze"
             /\ events' = Append(events, AnalyzeEvent(idx))
             /\ UNCHANGED <<error_count, outcomes>>
        ELSE /\ error_count' = OnSkipped(error_count)
             /\ outcomes' = Append(outcomes, Outcome("Skipped", "Extracting"))
             /\ events' = Append(events, EndEvent(idx, "Skipped"))
             /\ pc' = "pause"
             /\ cur' = cur
    /\ FetchDone
    /\ UNCHANGED otherVars
    /\ UNCHANGED <<url, sitemap_content, blog_urls, idx, analyzed_blogs,
                   result, excel_file>>

\* analyze_content_with_deepseek returned: the record is appended and the
\* error counter reset, then the sleep starts
AnalyzeOk ==
    /\ pc = "analyze"
    /\ analyzed_blogs' = AppendRecord(analyzed_blogs,
            [URL |-> blog_urls[idx], Title |-> cur.title,
             WordCount |-> cur.word_count])
    /\ error_count' = OnRecorded(error_count)
    /\ outcomes' = Append(outcomes, Outcome("Recorded", "Analyzing"))
    /\ events' = Append(events, EndEvent(idx, "Recorded"))
    /\ pc' = "pause"
    /\ cur' = NoPage
    /\ UNCHANGED fetchVars
    /\ UNCHANGED otherVars
    /\ UNCHANGED <<url, sitemap_content, blog_urls, idx, result, excel_file>>

\* analyze_content_with_deepseek raised (HTTP error, authentication, answer
\* that is no JSON), or ", ".join(analysis["keywords"]) raised
AnalyzeRaises ==
    /\ pc = "analyze"
    /\ ExceptClause("Analyzing")
    /\ cur' = NoPage
    /\ UNCHANGED fetchVars
    /\ UNCHANGED otherVars
    /\ UNCHANGED <<url, sitemap_content, blog_urls, idx, analyzed_blogs,
                   result, excel_file>>

\* await asyncio.sleep(2) returned
Pause ==
    /\ pc = "pause"
    /\ events' = Append(events, PauseEvent(idx))
    /\ pc' = "loop"
    /\ UNCHANGED fetchVars
    /\ UNCHANGED otherVars
    /\ UNCHANGED <<url, sitemap_content, blog_urls, idx, cur, analyzed_blogs,
                   error_count, result, excel_file, outcomes>>

\* if not analyzed_blogs
NoResults(list) == list = <<>>

\* after the loop: 404 without a record; else the report is written to
\* blog_analysis.xlsx and the success object returned, or the writer raises
AfterLoop ==
    /\ pc = "after_loop"
    /\ pc' = "done"
    /\ IF NoResults(analyzed_blogs)
       THEN /\ result' = Failure(OuterExcept(InnerExcept(
                            Exc(404, "no blogs could be analyzed"))))
            /\ excel_file' = excel_file
       ELSE \E written \in BOOLEAN :
            IF written
            THEN /\ excel_file' = analyzed_blogs
                 /\ result' = Success(AnalyzedCount(analyzed_blogs))
            ELSE /\ excel_file' = excel_file
                 /\ result' = Failure(OuterExcept(InnerExcept(
                                Exc(500, "report could not be written"))))
    /\ UNCHANGED fetchVars
    /\ UNCHANGED otherVars
    /\ UNCHANGED <<url, sitemap_content, blog_urls, idx, cur, analyzed_blogs,
                   error_count, events, outcomes>>

-----------------------------------------------------------------------------
(* Spec: one run of analyze_sitemap *)

\* "http://s", "https://s", "ftp://s"
SitemapUrls ==
    { <<104, 116, 116, 112, 58, 47, 47, 115>>,
      <<104, 116, 116, 112, 115, 58, 47, 47, 115>>,
      <<102, 116, 112, 58, 47, 47, 115>> }

Init ==
    /\ url \in SitemapUrls
    /\ other = NoRun
    /\ FunctionsIdle
    /\ sitemap_content = NoBody
    /\ blog_urls = <<>>
    /\ pc = "start"
    /\ RunIdle
    /\ FetchIdle

Next ==
    \/ Start
    \/ FetchStep
    \/ SitemapFetched
    \/ SitemapFetchFailed
    \/ LoopNext
    \/ BlogFetched
    \/ BlogFetchFailed
    \/ AnalyzeOk
    \/ AnalyzeRaises
    \/ Pause
    \/ AfterLoop

Spec == Init /\ [][Next]_vars

\* a run in which every awaited network call and every pause returns: a
\* step of the run that can be taken is eventually taken
SpecLive == Init /\ [][Next]_vars /\ WF_vars(Next)

-----------------------------------------------------------------------------
(* SpecTwoRuns: two runs of analyze_sitemap on one event loop.  The locals
   of the run that is not executing are kept in other; the file
   blog_analysis.xlsx (line 377) is the same file for both. *)

\* the locals of the executing run
Frame ==
    [url |-> url, sitemap_content |-> sitemap_content,
     blog_urls |-> blog_urls, idx |-> idx, cur |-> cur,
     analyzed_blogs |-> analyzed_blogs, error_count |-> error_count,
     pc |-> pc, result |-> result, f_ret |-> f_ret,
     cleaned_url |-> cleaned_url, max_retries |-> max_retries,
     attempt |-> attempt, f_pc |-> f_pc, f_result |-> f_result,
     fetch_log |-> fetch_log, events |-> events, outcomes |-> outcomes]

\* the locals of a run that has not started, called with sitemap URL u
StartFrame(u) ==
    [url |-> u, sitemap_content |-> NoBody, blog_urls |-> <<>>, idx |-> 0,
     cur |-> NoPage, analyzed_blogs |-> <<>>, error_count |-> 0,
     pc |-> "start", result |-> Pending, f_ret |-> "none",
     cleaned_url |-> <<>>, max_retries |-> 0, attempt |-> 0,
     f_pc |-> "idle", f_result |-> NoResult, fetch_log |-> <<>>,
     events |-> <<>>, outcomes |-> <<>>]

\* the executing run is not started, has returned, or is suspended in an
\* await: client.get (line 184), asyncio.sleep (lines 204 and 347) or the
\* request of analyze_content_with_deepseek (line 327)
AtAwait ==
    \/ pc \in {"start", "done", "analyze", "pause"}
    \/ f_pc \in {"get", "sleep"}

\* the event loop resumes the other run
Switch ==
    /\ other # NoRun
    /\ AtAwait
    /\ other' = Frame
    /\ url' = other.url
    /\ sitemap_content' = other.sitemap_content
    /\ blog_urls' = other.blog_urls
    /\ idx' = other.idx
    /\ cur' = other.cur
    /\ analyzed_blogs' = other.analyzed_blogs
    /\ error_count' = other.error_count
    /\ pc' = other.pc
    /\ result' = other.result
    /\ f_ret' = other.f_ret
    /\ cleaned_url' = other.cleaned_url
    /\ max_retries' = other.max_retries
    /\ attempt' = other.attempt
    /\ f_pc' = other.f_pc
    /\ f_result' = other.f_result
    /\ fetch_log' = other.fetch_log
    /\ events' = other.events
    /\ outcomes' = other.outcomes
    /\ UNCHANGED <<excel_file, soup, content, analysis>>

InitTwoRuns ==
    /\ url \in SitemapUrls
    /\ \E u \in SitemapUrls : other = StartFrame(u)
    /\ FunctionsIdle
    /\ sitemap_content = NoBody
    /\ blog_urls = <<>>
    /\ pc = "start"
    /\ RunIdle
    /\ FetchIdle

NextTwoRuns ==
    \/ Start
    \/ FetchStep
    \/ SitemapFetched
    \/ SitemapFetchFailed
    \/ LoopNext
    \/ BlogFetched
    \/ BlogFetchFailed
    \/ AnalyzeOk
    \/ AnalyzeRaises
    \/ Pause
    \/ AfterLoop
    \/ Switch

SpecTwoRuns == InitTwoRuns /\ [][NextTwoRuns]_vars


-----------------------------------------------------------------------------
(* SpecResolve: one call parse_sitemap_content(content) *)

\* the texts of the loc elements of a document that parses as XML:
\* "http://a/post/x", the same wrapped in white space, "http://a/post/y z",
\* "http://a/about", "/post/r s" and the empty text
XmlLocTexts ==
    { <<104, 116, 116, 112, 58, 47, 47, 97, 47, 112, 111, 115, 116, 47, 120>>,
      <<10, 32, 104, 116, 116, 112, 58, 47, 47, 97, 47, 112, 111, 115, 116,
        47, 120, 10>>,
      <<104, 116, 116, 112, 58, 47, 47, 97, 47, 112, 111, 115, 116, 47, 121,
        32, 122>>,
      <<104, 116, 116, 112, 58, 47, 47, 97, 47, 97, 98, 111, 117, 116>>,
      <<47, 112, 111, 115, 116, 47, 114, 32, 115>>,
      <<>> }

\* the lines of a body that does not parse as XML: "http://a/post/x",
\* "http://a/about", "/post/r" and "http://a/post/" + chr(1) + "c"
TextLines ==
    { <<104, 116, 116, 112, 58, 47, 47, 97, 47, 112, 111, 115, 116, 47, 120>>,
      <<104, 116, 116, 112, 58, 47, 47, 97, 47, 97, 98, 111, 117, 116>>,
      <<47, 112, 111, 115, 116, 47, 114>>,
      <<104, 116, 116, 112, 58, 47, 47, 97, 47, 112, 111, 115, 116, 47, 1,
        99>> }

SeqsUpTo(S, n) == UNION { [1..k -> S] : k \in 0..n }

ResolveBodies ==
    { XmlBody(locs) :
        locs \in SeqsUpTo([ns : {"ns", "none"}, text : XmlLocTexts], MaxDocLen) }
    \cup { TextBody(Join(<<10>>, lines)) : lines \in SeqsUpTo(TextLines, MaxDocLen) }

InitResolve ==
    /\ url = <<>>
    /\ other = NoRun
    /\ FunctionsIdle
    /\ sitemap_content \in ResolveBodies
    /\ blog_urls = <<>>
    /\ pc = "resolve"
    /\ RunIdle
    /\ FetchIdle

\* blog_urls = await parse_sitemap_content(sitemap_content)
Resolve ==
    /\ pc = "resolve"
    /\ blog_urls' = parse_sitemap_content(sitemap_content)
    /\ pc' = "resolved"
    /\ UNCHANGED sitemap_content
    /\ UNCHANGED fetchVars
    /\ UNCHANGED runVars

NextResolve == Resolve

SpecResolve == InitResolve /\ [][NextResolve]_vars

-----------------------------------------------------------------------------
(* SpecExtract: one call extract_content_from_html(soup) *)

\* A page is the sequence of the elements of its document, in document
\* order, inside a body element or not.  An element has a kind, may hold
\* text of its own and may hold text inside a nav, header or footer
\* descendant.  A word of the page is named by where it stands: the
\* position of its element and "text" or "unwanted".
ElementKinds == {"article", "main", "div#content", "div.content"}

Elements == [kind : ElementKinds, text : BOOLEAN, unwanted : BOOLEAN]

\* faulty variant: main is preferred to article
content_selectors_MainFirst ==
    <<"main", "article", "div[class_=content]", "div[class_=post-content]",
      "div[class_=blog-post]", "div[class_=entry-content]", "div#content",
      "div[class_=article-content]">>

\* content_selectors, in order of preference.  A dictionary given to find
\* as attrs names attributes literally, so the entries with 'class_' look
\* for an attribute called class_ and match no element with a class.
content_selectors ==
    <<"article", "main", "div[class_=content]", "div[class_=post-content]",
      "div[class_=blog-post]", "div[class_=entry-content]", "div#content",
      "div[class_=article-content]">>

Matches(selector, element) ==
    /\ selector \in {"article", "main", "div#content"}
    /\ element.kind = selector

\* soup.find(tag, attrs): the position of the first matching element, 0 for
\* None
FindElement(page, selector) ==
    LET hits == { k \in 1..Len(page.nodes) : Matches(selector, page.nodes[k]) }
    IN  IF hits = {} THEN 0 ELSE CHOOSE k \in hits : \A h \in hits : k <= h

\* the position of the element of the first selector that finds one
MainContent(page) ==
    LET found == { j \in 1..Len(content_selectors) :
                      FindElement(page, content_selectors[j]) # 0 }
    IN  IF found = {} THEN 0
        ELSE FindElement(page,
                 content_selectors[CHOOSE j \in found : \A h \in found : j <= h])

\* get_text(separator=' ', strip=True) of element k followed by
\* ' '.join(content.split()): its words; decomposed tells whether its
\* unwanted descendants were removed from the tree
ElementText(page, k, decomposed) ==
    (IF page.nodes[k].text THEN <<(<<k, "text">>)>> ELSE <<>>)
    \o (IF page.nodes[k].unwanted /\ ~decomposed
        THEN <<(<<k, "unwanted">>)>> ELSE <<>>)

RECURSIVE BodyTextFrom(_, _, _)
\* soup.body.get_text after the unwanted descendants of element m were
\* decomposed: the words of the elements from position k on
BodyTextFrom(page, k, m) ==
    IF k > Len(page.nodes) THEN <<>>
    ELSE ElementText(page, k, k = m) \o BodyTextFrom(page, k + 1, m)

extract_content_from_html(page) ==
    LET m == MainContent(page)
        container == IF m = 0 THEN <<>> ELSE ElementText(page, m, TRUE)
        text == IF container = <<>> /\ page.body
                THEN BodyTextFrom(page, 1, m)
                ELSE container
    IN  [content |-> text, word_count |-> Len(text)]

\* the pages of at most MaxElements elements
ExtractPages ==
    [body : BOOLEAN, nodes : SeqsUpTo(Elements, MaxElements)]

InitExtract ==
    /\ url = <<>>
    /\ other = NoRun
    /\ soup \in ExtractPages
    /\ content = <<>>
    /\ analysis = NoAnalysis
    /\ sitemap_content = NoBody
    /\ blog_urls = <<>>
    /\ pc = "extract"
    /\ RunIdle
    /\ FetchIdle

\* content, word_count = extract_content_from_html(soup)
Extract ==
    /\ pc = "extract"
    /\ content' = extract_content_from_html(soup).content
    /\ cur' = [title |-> "",
               word_count |-> extract_content_from_html(soup).word_count]
    /\ pc' = "extracted"
    /\ UNCHANGED <<url, sitemap_content, blog_urls, idx, analyzed_blogs,
                   error_count, result, excel_file, events, outcomes,
                   other, soup, analysis>>
    /\ UNCHANGED fetchVars

NextExtract == Extract

SpecExtract == InitExtract /\ [][NextExtract]_vars

-----------------------------------------------------------------------------
(* SpecAnalysis: analyze_content_with_deepseek from the message content of
   the answer on (lines 146-168) *)

RECURSIVE LStrip(_)
LStrip(s) ==
    IF s # <<>> /\ IsSpace(s[1]) THEN LStrip(Tail(s)) ELSE s

RECURSIVE RStrip(_)
RStrip(s) ==
    IF s # <<>> /\ IsSpace(s[Len(s)])
    THEN RStrip(SubSeq(s, 1, Len(s) - 1)) ELSE s

\* s.strip()
Strip(s) == RStrip(LStrip(s))

\* s.endswith(suffix)
EndsWith(s, suffix) ==
    Len(s) >= Len(suffix)
        /\ SubSeq(s, Len(s) - Len(suffix) + 1, Len(s)) = suffix

\* three backquotes
Fence == <<96, 96, 96>>
\* three backquotes and "json"
JsonFence == <<96, 96, 96, 106, 115, 111, 110>>

\* if content.startswith('```json'): content = content[7:]
StripOpening(s) ==
    IF StartsWith(s, JsonFence) THEN SubSeq(s, Len(JsonFence) + 1, Len(s))
    ELSE s

\* if content.endswith('```'): content = content[:-3]
StripClosing(s) ==
    IF EndsWith(s, Fence) THEN SubSeq(s, 1, Len(s) - Len(Fence)) ELSE s

\* the cleaning of lines 150-155
CleanContent(s) == Strip(StripClosing(StripOpening(Strip(s))))

\* the JSON text {"k":1}, and a text that is no JSON: {
ValidObject == <<123, 34, 107, 34, 58, 49, 125>>
BrokenObject == <<123>>

\* json.loads on the texts the cleaning can leave from AnswerContents: the
\* object text, alone or inside JSON white space, is decoded; every other
\* text raises JSONDecodeError, turned into ValueError (line 166)
json_loads(s) ==
    IF Strip(s) = ValidObject
    THEN [kind |-> "analysis"]
    ELSE [kind |-> "ValueError"]

OpeningFences ==
    { JsonFence \o <<10>>, JsonFence, Fence \o <<10>> }
ClosingFences == { <<10>> \o Fence, Fence }
Paddings == { <<>>, <<10>>, <<32, 10>> }
AnswerBodies == { ValidObject, BrokenObject }

\* the message contents of the answers: an object text or a broken one,
\* bare or between an opening and a closing fence or after or before one
\* of them, with white space around
AnswerContents ==
    { lead \o open \o body \o close \o trail :
        lead \in Paddings, open \in OpeningFences \cup {<<>>},
        body \in AnswerBodies, close \in ClosingFences \cup {<<>>},
        trail \in Paddings }

InitAnalysis ==
    /\ url = <<>>
    /\ other = NoRun
    /\ soup = NoSoup
    /\ content \in AnswerContents
    /\ analysis = NoAnalysis
    /\ sitemap_content = NoBody
    /\ blog_urls = <<>>
    /\ pc = "answer"
    /\ RunIdle
    /\ FetchIdle

\* the answer is cleaned and decoded
ParseAnswer ==
    /\ pc = "answer"
    /\ analysis' = json_loads(CleanContent(content))
    /\ pc' = "answered"
    /\ UNCHANGED <<url, sitemap_content, blog_urls, idx, cur, analyzed_blogs,
                   error_count, result, excel_file, events, outcomes,
                   other, soup, content>>
    /\ UNCHANGED fetchVars

NextAnalysis == ParseAnswer

SpecAnalysis == InitAnalysis /\ [][NextAnalysis]_vars


-----------------------------------------------------------------------------
(* Properties of a run (checked under Spec) *)

Range(f) == { f[i] : i \in DOMAIN f }

RecordedAt == { k \in 1..Len(outcomes) : outcomes[k].kind = "Recorded" }

\* the number of candidates that reached Recorded
NumRecorded == Cardinality(RecordedAt)

\* the number of candidates processed since the last Recorded one
SinceLastRecorded ==
    Cardinality({ k \in 1..Len(outcomes) : \A r \in RecordedAt : r < k })

\* a candidate is being fetched, extracted or analyzed
InCandidate == pc \in {"blog", "analyze"}

\* C1: once the consecutive-error counter has reached the budget of 3, by
\* Failed or by Skipped outcomes, no later candidate is fetched, extracted
\* or analyzed: a candidate is only ever in progress with a counter below
\* the budget.
C1_NoCandidateAfterBudget == InCandidate => error_count < max_errors

\* C2: the fetch of every candidate but the first directly follows the
\* pause, whatever the outcome of the candidate before it was.
C2_PauseBeforeEveryNextFetch ==
    \A k \in 2..Len(events) :
        (events[k].type = "fetch" /\ events[k].i >= 2)
            => events[k - 1].type = "pause"

\* the status the failure of a run is meant to be surfaced with
ExpectedStatus ==
    IF ~ValidSitemapUrl(url) THEN 400
    ELSE IF result.detail \in {"no blog posts found in sitemap",
                               "no blogs could be analyzed"} THEN 404
    ELSE IF result.detail = "Request timed out" THEN 504
    ELSE 500

\* C3: every failure of the run reaches the caller with the status of its
\* cause: 400 for a URL that is not http(s), 404 for a sitemap without post
\* candidates and for a run without records, 504 for a sitemap fetch that
\* timed out, 500 for the rest.
C3_FailureKeepsItsStatus ==
    result.kind = "HTTPException" => result.status_code = ExpectedStatus

\* C4: the consecutive-error counter is 0 at the start of the run and equals,
\* at every point, the number of candidates processed since the last
\* Recorded one: Recorded resets it, Failed and Skipped each add exactly 1.
C4_CounterCountsSinceLastRecorded == error_count = SinceLastRecorded

\* a Recorded candidate, then a Skipped one, then a Failed one
C4_Witness ==
    /\ Len(outcomes) = 3
    /\ outcomes[1].kind = "Recorded"
    /\ outcomes[2].kind = "Skipped"
    /\ outcomes[3].kind = "Failed"
    /\ error_count = 2

\* the run ended after its candidate loop
LoopEnded == pc = "done" /\ blog_urls # <<>>

NoResultsFailure ==
    result.kind = "HTTPException" /\ result.detail = "no blogs could be analyzed"

ReportFailure ==
    result.kind = "HTTPException" /\ result.detail = "report could not be written"

\* C5 as stated: after the loop the run fails with NoResultsFailure exactly
\* when no candidate was Recorded, and otherwise ends with success and the
\* number of Recorded candidates as its count.
C5_SuccessIffSomeRecord ==
    LoopEnded =>
        IF NumRecorded = 0
        THEN NoResultsFailure
        ELSE result.kind = "success" /\ result.analyzed_count = NumRecorded

\* C5, amended: after the loop the run fails with NoResultsFailure exactly
\* when no candidate was Recorded; otherwise the report is written and the
\* run ends with success and the number of Recorded candidates as its
\* count, unless writing the report raises, which ends the run with an
\* internal error.
C5_NoResultsIffNoRecord ==
    LoopEnded =>
        /\ NoResultsFailure <=> NumRecorded = 0
        /\ NumRecorded > 0 =>
            \/ result.kind = "success" /\ result.analyzed_count = NumRecorded
            \/ ReportFailure
        /\ result.kind = "success" => excel_file = analyzed_blogs

\* five candidates, a success followed by three failures: the loop stops
\* before the fifth and the run succeeds with count 1
C5_Witness ==
    /\ LoopEnded
    /\ Len(blog_urls) = 5
    /\ [k \in 1..Len(outcomes) |-> outcomes[k].kind]
            = <<"Recorded", "Failed", "Failed", "Failed">>
    /\ result = Success(1)


-----------------------------------------------------------------------------
(* Properties of a fetch (checked under SpecFetch) *)

Gets == Cardinality({ k \in 1..Len(fetch_log) : fetch_log[k] = "get" })
Sleeps == Cardinality({ k \in 1..Len(fetch_log) : fetch_log[k] = "sleep" })

\* get, sleep, get, .., get: one sleep between each two consecutive gets
Alternates ==
    \A k \in 1..Len(fetch_log) :
        fetch_log[k] = (IF k % 2 = 1 THEN "get" ELSE "sleep")

FetchEnded == f_pc \in {"raised", "returned"}

\* C6: a fetch whose attempts all fail raises after exactly max_retries
\* attempts, with one pause between each two consecutive attempts (so
\* max_retries - 1 pauses, none after the last attempt); a fetch that made
\* an attempt never ends without a response or a raised failure; and once
\* the failure is raised no further attempt or pause follows.
C6_ExactlyMaxAttempts ==
    /\ [](/\ f_pc = "raised" =>
                /\ Gets = max_retries
                /\ Sleeps = max_retries - 1
                /\ Alternates
          /\ (FetchEnded /\ f_result.kind # "response" /\ fetch_log # <<>>)
                => f_pc = "raised")
    /\ [][f_pc = "raised" => fetch_log' = fetch_log]_vars

\* three attempts that end in a transport error
C6_Witness ==
    /\ f_pc = "raised"
    /\ max_retries = 3
    /\ f_result = Raised(500, "Error fetching URL")
    /\ fetch_log = <<"get", "sleep", "get", "sleep", "get">>


-----------------------------------------------------------------------------
(* Properties of the fetched URLs and of their order (checked under Spec) *)

\* the positions in events of the fetches of candidates
CandidateFetches ==
    { k \in 1..Len(events) : events[k].type = "fetch" /\ events[k].i >= 1 }

\* the texts of the locations the sitemap body holds
LocationTexts ==
    IF sitemap_content.kind = "xml"
    THEN { sitemap_content.locs[i].text : i \in 1..Len(sitemap_content.locs) }
    ELSE Range(Split(sitemap_content.text))

\* the locations of the sitemap body that do not contain the post marker
NonPostLocations == { t \in LocationTexts : ~Contains(t, PostMarker) }

\* fetch_url_with_retry has just been called
FetchCalled == f_pc = "head" /\ attempt = 0

\* the URL the call in progress was given
FetchArgument == events[Len(events)].url

\* C7: every URL handed to the fetcher is the sitemap URL itself or a
\* resolved candidate that contains '/post/' (and so does the URL the HTTP
\* client is given for it); no location of the sitemap without the marker
\* is handed to it as a candidate; the number of records, and the count a
\* successful run returns, never exceed the number of distinct candidates.
C7_OnlyPostCandidatesFetched ==
    LET distinct == Cardinality(Range(blog_urls))
    IN  /\ (FetchCalled /\ f_ret = "sitemap") => FetchArgument = url
        /\ (FetchCalled /\ f_ret # "sitemap") =>
            /\ f_ret = "blog"
            /\ FetchArgument \in Range(blog_urls)
            /\ Contains(FetchArgument, PostMarker)
            /\ Contains(cleaned_url, PostMarker)
            /\ \A t \in NonPostLocations :
                FetchArgument \notin {t, clean_url(t)}
        /\ Len(analyzed_blogs) <= distinct
        /\ result.kind = "success" => result.analyzed_count <= distinct

\* three loc elements, two of them posts: both are fetched and analyzed
C7_Witness ==
    /\ sitemap_content.kind = "xml"
    /\ Len(sitemap_content.locs) = 3
    /\ \E i \in 1..3 : ~Contains(sitemap_content.locs[i].text, PostMarker)
    /\ Cardinality(CandidateFetches) = 2
    /\ result = Success(2)

\* the position of u in blog_urls
PositionOf(u) == CHOOSE i \in 1..Len(blog_urls) : blog_urls[i] = u

IsCandidateStep(e) == (e.type = "fetch" /\ e.i >= 1) \/ e.type = "end"

\* C8: the candidates are fetched in the order of the resolved list, each
\* at most once (the n-th candidate fetch is that of blog_urls[n]), a
\* candidate's fetch starts only after the one before it has reached its
\* outcome (fetches and outcomes alternate), and the records are in the
\* relative order of their URLs in the list.
C8_SequentialInResolverOrder ==
    LET steps == SelectSeq(events, IsCandidateStep)
    IN  /\ \A n \in 1..Len(steps) :
            /\ steps[n].i = (n + 1) \div 2
            /\ steps[n].i <= Len(blog_urls)
            /\ IF n % 2 = 1
               THEN /\ steps[n].type = "fetch"
                    /\ steps[n].url = blog_urls[steps[n].i]
               ELSE steps[n].type = "end"
        /\ \A a \in 1..Len(analyzed_blogs) :
            /\ analyzed_blogs[a].URL \in Range(blog_urls)
            /\ a > 1 => PositionOf(analyzed_blogs[a - 1].URL)
                            < PositionOf(analyzed_blogs[a].URL)

\* three candidates processed, the second one not recorded
C8_Witness ==
    /\ Len(outcomes) = 3
    /\ outcomes[2].kind # "Recorded"
    /\ Len(analyzed_blogs) = 2
    /\ Cardinality(CandidateFetches) = 3

-----------------------------------------------------------------------------
(* Properties of parse_sitemap_content (checked under SpecResolve) *)

Resolved == pc = "resolved"

\* the values the loc elements at the positions P of the document give:
\* the normalized texts of those that contain the post marker
ValuesAt(P) ==
    { clean_url(sitemap_content.locs[i].text) :
        i \in { j \in P : Contains(sitemap_content.locs[j].text, PostMarker) } }

\* the position in the document of the first loc element at P that gives v
FirstSeen(P, v) ==
    CHOOSE i \in P :
        /\ Contains(sitemap_content.locs[i].text, PostMarker)
        /\ clean_url(sitemap_content.locs[i].text) = v
        /\ \A j \in P :
            (Contains(sitemap_content.locs[j].text, PostMarker)
                /\ clean_url(sitemap_content.locs[j].text) = v) => i <= j

\* blog_urls holds exactly the values of the positions P, each once, in the
\* order of their first occurrence in the document
ExactlyInFirstSeenOrder(P) ==
    /\ Range(blog_urls) = ValuesAt(P)
    /\ \A a, b \in 1..Len(blog_urls) :
        a < b => /\ blog_urls[a] # blog_urls[b]
                 /\ FirstSeen(P, blog_urls[a]) < FirstSeen(P, blog_urls[b])

AllLocs == 1..Len(sitemap_content.locs)

\* the loc elements the parser searches: those of the sitemap namespace,
\* or, when the document has none, those without a namespace
SearchedLocs ==
    IF \E i \in AllLocs : sitemap_content.locs[i].ns = "ns"
    THEN { i \in AllLocs : sitemap_content.locs[i].ns = "ns" }
    ELSE { i \in AllLocs : sitemap_content.locs[i].ns = "none" }

\* C9 as stated: for a body that parses as XML the result is exactly the
\* normalized values of the loc elements that contain the post marker, each
\* once, at the position of its first occurrence in the document.
C9_AllLocValuesInOrder ==
    (Resolved /\ sitemap_content.kind = "xml") => ExactlyInFirstSeenOrder(AllLocs)

\* C9, amended: for a body that parses as XML the result is exactly the
\* normalized values of the searched loc elements that contain the post
\* marker (the elements of the sitemap namespace, or, when the document has
\* none of these, the elements without a namespace), each once, in the order
\* of their first occurrence in the document.
C9_SearchedLocValuesInOrder ==
    (Resolved /\ sitemap_content.kind = "xml")
        => ExactlyInFirstSeenOrder(SearchedLocs)

\* a document of three loc elements in which a value occurs twice and
\* another value follows
C9_Witness ==
    /\ Resolved
    /\ sitemap_content.kind = "xml"
    /\ Len(sitemap_content.locs) = 3
    /\ Len(blog_urls) = 2
    /\ clean_url(sitemap_content.locs[1].text) = blog_urls[1]
    /\ clean_url(sitemap_content.locs[2].text) = blog_urls[1]
    /\ sitemap_content.locs[1].text # sitemap_content.locs[2].text
    /\ clean_url(sitemap_content.locs[3].text) = blog_urls[2]

\* a scheme stands before the first "://"
HasScheme(u) == Find(u, SchemeSep) > 1

HasWhitespace(u) == \E i \in 1..Len(u) : IsSpace(u[i])

\* C10: every candidate the resolver returns, from the XML path or from the
\* plain-text fallback, has a scheme before '://' and holds no whitespace
\* character.
C10_CandidatesAbsoluteNoWhitespace ==
    Resolved =>
        \A i \in 1..Len(blog_urls) :
            HasScheme(blog_urls[i]) /\ ~HasWhitespace(blog_urls[i])

-----------------------------------------------------------------------------
(* Normalisation applied twice (checked under Spec): parse_sitemap_content
   cleans every location, and fetch_url_with_retry cleans its argument again *)

\* a character that clean_url takes for white space or drops as a control
\* character stands inside the text
HasWhitespaceOrControl(u) ==
    \E i \in 1..Len(u) : IsSpace(u[i]) \/ ~IsPrintable(u[i])

\* the locations of the sitemap body with embedded white space or control
\* characters
RawLocations == { t \in LocationTexts : HasWhitespaceOrControl(t) }

\* C11: normalising is idempotent on raw URLs with embedded white space or
\* control characters: when the fetcher is called for a candidate that is
\* the normalisation of such a location, the second normalisation it
\* applies gives the candidate again.
C11_NormalizeIdempotent ==
    (FetchCalled /\ f_ret = "blog"
        /\ \E x \in RawLocations : clean_url(x) = FetchArgument)
        => cleaned_url = FetchArgument

-----------------------------------------------------------------------------
(* Isolation of interleaved runs (checked under SpecTwoRuns) *)

\* the file the result of a successful run names holds the records of
\* that run
ReportIsOwn(res, records) == res.kind = "success" => excel_file = records

\* C12: two interleaved runs share no mutable state: the report a run
\* returns a reference to holds exactly the records that run accumulated,
\* whatever the other run does.
C12_ReportHoldsOwnRecords ==
    /\ ReportIsOwn(result, analyzed_blogs)
    /\ other # NoRun => ReportIsOwn(other.result, other.analyzed_blogs)

-----------------------------------------------------------------------------
(* Extraction in the run (checked under Spec) *)

\* C13: extraction of title and body never fails: whatever the page, no
\* candidate reaches Failed from the Extracting stage (a page without title
\* text gets the title "No title").
C13_NoFailureFromExtracting ==
    \A k \in 1..Len(outcomes) :
        ~(outcomes[k].kind = "Failed" /\ outcomes[k].stage = "Extracting")

-----------------------------------------------------------------------------
(* The container the body text is taken from (checked under SpecExtract) *)

Extracted == pc = "extracted"

\* the positions of the elements of a kind
ElementsOf(kind) ==
    { k \in 1..Len(soup.nodes) : soup.nodes[k].kind = kind }

\* the page has an article element and a main element
HasArticleAndMain == ElementsOf("article") # {} /\ ElementsOf("main") # {}

\* the first article element
FirstArticle ==
    CHOOSE k \in ElementsOf("article") : \A h \in ElementsOf("article") : k <= h

\* the words of the page left when the unwanted descendants of element m
\* are removed, in document order
WordsWithout(m) ==
    { w \in { <<k, part>> : k \in 1..Len(soup.nodes),
                             part \in {"text", "unwanted"} } :
        /\ soup.nodes[w[1]][w[2]]
        /\ ~(w[1] = m /\ w[2] = "unwanted") }

\* C14 (as stated): for a page with an article element and a main element
\* the extracted text comes only from the article, outside its nav, header
\* and footer descendants, also when the article's own text is empty.
C14_OnlyArticleText ==
    (Extracted /\ HasArticleAndMain) =>
        \A i \in 1..Len(content) : content[i] = <<FirstArticle, "text">>

\* C14 (amended): for a page with an article element and a main element the
\* extracted text is exactly the first article's own text when that text is
\* not empty or the page has no body element; when it is empty and there
\* is a body, the extracted text holds every word of the body except the
\* article's removed descendants, the words of main included.
C14_ArticleTextOrBodyFallback ==
    (Extracted /\ HasArticleAndMain) =>
        IF soup.nodes[FirstArticle].text
        THEN content = <<(<<FirstArticle, "text">>)>>
        ELSE IF soup.body
        THEN /\ Range(content) = WordsWithout(FirstArticle)
             /\ Len(content) = Cardinality(WordsWithout(FirstArticle))
             /\ \A i, j \in 1..Len(content) :
                    i < j => content[i][1] <= content[j][1]
        ELSE content = <<>>

\* a page with body whose main element, with text, stands before an
\* article with text and unwanted descendants
C14_Witness ==
    /\ Extracted
    /\ soup.body
    /\ Len(soup.nodes) = 2
    /\ soup.nodes[1] = [kind |-> "main", text |-> TRUE, unwanted |-> FALSE]
    /\ soup.nodes[2] = [kind |-> "article", text |-> TRUE, unwanted |-> TRUE]
    /\ content = <<(<<2, "text">>)>>

-----------------------------------------------------------------------------
(* Fenced answers (checked under SpecAnalysis) *)

Answered == pc = "answered"

\* the answer is body between an opening fence, with or without the
\* language tag, and a closing fence
Fenced(body) ==
    \E lead \in Paddings, open \in OpeningFences, close \in ClosingFences,
       trail \in Paddings :
        content = lead \o open \o body \o close \o trail

\* C15: an answer wrapped in an opening fence, with or without a language
\* tag, and a closing fence is stripped of both and decoded: the analysis
\* fails only when the text between the fences is not parseable.
C15_FencedAnswerParsed ==
    Answered =>
        \A body \in AnswerBodies :
            Fenced(body) => (analysis.kind = "analysis" <=> body = ValidObject)

-----------------------------------------------------------------------------
(* What a failed or skipped candidate leaves alone (checked under Spec) *)

\* the step ends a candidate as Failed or Skipped
EndsFailedOrSkipped ==
    /\ Len(outcomes') = Len(outcomes) + 1
    /\ outcomes'[Len(outcomes')].kind \in {"Failed", "Skipped"}

\* the positions in blog_urls of the candidates that reached Recorded, in
\* order
RecordedPositions ==
    SelectSeq([k \in 1..Len(outcomes) |-> k],
              LAMBDA k : outcomes[k].kind = "Recorded")

\* the accumulated records are those of the Recorded candidates, in order
RecordsAreTheRecorded ==
    /\ Len(analyzed_blogs) = Len(RecordedPositions)
    /\ \A j \in 1..Len(analyzed_blogs) :
            analyzed_blogs[j].URL = blog_urls[RecordedPositions[j]]

\* C16: a candidate that ends Failed or Skipped leaves the accumulated
\* records unchanged and does not end the run by itself: the run goes on
\* with the loop, or leaves the loop when the error budget is used up, and
\* the records of the candidates recorded before are all there, in order,
\* also when the loop has ended.
C16_FailedOrSkippedKeepsRecords ==
    /\ [][EndsFailedOrSkipped =>
            /\ analyzed_blogs' = analyzed_blogs
            /\ result' = Pending
            /\ \/ pc' \in {"loop", "pause"}
               \/ pc' = "after_loop" /\ error_count' >= max_errors]_vars
    /\ []RecordsAreTheRecorded

\* a record, then a skipped candidate and two failed ones that use up the
\* budget: the report holds the record
C16_Witness ==
    /\ LoopEnded
    /\ [k \in 1..Len(outcomes) |-> outcomes[k].kind]
            = <<"Recorded", "Skipped", "Failed", "Failed">>
    /\ Len(blog_urls) > 4
    /\ Len(analyzed_blogs) = 1
    /\ excel_file = analyzed_blogs

-----------------------------------------------------------------------------
(* How a fetch ends (checked under SpecFetch) *)

\* C17: for every max_retries, 0 included, a fetch ends in one of two ways:
\* it returns the 2xx response its last attempt obtained, or it raises the
\* HTTPException of a failed fetch; it never returns without a response.
C17_ResponseOrFailure ==
    FetchEnded =>
        \/ /\ f_pc = "returned"
           /\ f_result.kind = "response"
           /\ f_result.status_code \in 200..299
           /\ fetch_log # <<>>
           /\ fetch_log[Len(fetch_log)] = "get"
        \/ /\ f_pc = "raised"
           /\ f_result.kind = "HTTPException"

-----------------------------------------------------------------------------
(* When the analysis is called (checked under Spec) *)

\* the positions in events of the calls of the analysis
AnalysisCalls == { k \in 1..Len(events) : events[k].type = "analyze" }

\* the step calls analyze_content_with_deepseek
CallsAnalysis ==
    /\ Len(events') = Len(events) + 1
    /\ events'[Len(events')].type = "analyze"

\* C18: the analysis is called for a candidate only after its fetch
\* returned a response and its extracted body is not empty, and at most
\* once per candidate; a candidate with an empty body ends Skipped without
\* a call of the analysis and without a record.
C18_AnalysisOnlyWithContent ==
    /\ [][CallsAnalysis =>
            /\ pc = "blog"
            /\ f_pc = "returned"
            /\ f_result.kind = "response"
            /\ events[Len(events)] = FetchEvent(idx, blog_urls[idx])
            /\ events'[Len(events')].i = idx
            /\ cur'.word_count > 0]_vars
    /\ [](/\ \A k, l \in AnalysisCalls : events[k].i = events[l].i => k = l
          /\ \A j \in 1..Len(outcomes) :
                outcomes[j].kind = "Skipped" =>
                    /\ \A k \in AnalysisCalls : events[k].i # j
                    /\ \A r \in 1..Len(analyzed_blogs) :
                            analyzed_blogs[r].URL # blog_urls[j])

\* a candidate with an empty body was skipped and the next one is being
\* analyzed
C18_Witness ==
    /\ pc = "analyze"
    /\ idx = 2
    /\ Len(outcomes) = 1
    /\ outcomes[1].kind = "Skipped"
    /\ AnalysisCalls = {Len(events)}

-----------------------------------------------------------------------------
(* Termination and the number of attempts (checked under SpecLive) *)

\* the positions in events of the calls of the fetcher
FetchCalls == { k \in 1..Len(events) : events[k].type = "fetch" }

\* the run has returned its result or raised its failure
RunEnded ==
    pc = "done" /\ result.kind \in {"success", "HTTPException"}

\* C19: when every network call and every pause returns, a run over a
\* finite candidate list ends with a success or a failure result, and it
\* makes at most 3 fetch attempts for the sitemap and 3 for each candidate:
\* the fetcher is called once for the sitemap and at most once for every
\* candidate, and no call makes more than 3 attempts.
C19_RunEndsWithinAttempts ==
    /\ <>RunEnded
    /\ [](/\ Gets <= default_max_retries
          /\ \A k \in FetchCalls : events[k].i \in 0..Len(blog_urls)
          /\ \A k, l \in FetchCalls : events[k].i = events[l].i => k = l)

\* the run has ended after three attempts for the sitemap and three for
\* each of two candidates
C19_Witness ==
    /\ RunEnded
    /\ Len(blog_urls) = 2
    /\ Cardinality(FetchCalls) = 3
    /\ [k \in 1..Len(outcomes) |-> outcomes[k]]
            = <<Outcome("Failed", "Fetching"), Outcome("Failed", "Fetching")>>

=============================================================================
